---------------------------- MODULE Spec2Model ----------------------------
(***************************************************************************)
(* A model of src/trading_bot.py: the BinanceFuturesBot wrapper around the *)
(* exchange client, and the interactive menu loop of main().               *)
(*                                                                         *)
(* Text is a sequence of one-character strings, so that str.upper(),       *)
(* str.strip(), int() and float() are computed rather than assumed.        *)
(* A Python dict is a TLA+ function: d[k] raises KeyError when k is not in *)
(* DOMAIN d, and d.get(k, default) is Get(d, k, default).                  *)
(*                                                                         *)
(* Two specifications share the wrapper's steps:                           *)
(*   Spec         main(): the menu loop drives the wrapper;                *)
(*   WrapperSpec  a caller that invokes the wrapper's methods directly,    *)
(*                with arbitrary arguments.                                *)
(* A third one, InputSpec, is get_user_input() called on its own.          *)
(***************************************************************************)
EXTENDS Integers, Sequences, FiniteSets, TLC

VARIABLES
    pc,         \* control location of the single thread
    op,         \* the wrapper method being executed ("none" outside one)
    args,       \* its arguments
    request,    \* the exchange call issued by this invocation
    netCalls,   \* exchange calls issued by this invocation (this menu action)
    response,   \* what the exchange client returned to the wrapper
    exc,        \* the exception in flight / delivered to the caller
    raisedBy,   \* the exception as it was first raised (to compare with exc)
    result,     \* the wrapper's return value
    log,        \* log lines written by this invocation, in order
    bot,        \* the BinanceFuturesBot object (NoValue before construction)
    placed,     \* caller: the market order whose status it goes on to query
    orders,     \* exchange: orderId -> order, for the orders placed so far
    choice,     \* shell: the current menu selection
    collected,  \* shell: the parameters collected so far for the selection
    display,    \* shell: what the last menu iteration printed
    exitedBy,   \* shell: which statement ended the loop
    entered     \* shell: the value the last get_user_input() call returned

vars == <<pc, op, args, request, netCalls, response, exc, raisedBy, result,
          log, bot, placed, orders, choice, collected, display, exitedBy, entered>>

wrapperVars == <<op, args, request, netCalls, response, exc, raisedBy, result, log>>
shellVars == <<choice, collected, display, exitedBy, entered>>

---------------------------------------------------------------------------
(* Bounds of the model.                                                    *)

MaxOrders == 2      \* orders the exchange accepts before it rejects new ones
MaxPositions == 2   \* positions in one account response
MaxRounds == 3      \* entries typed at one prompt of InputSpec

---------------------------------------------------------------------------
(* Text.                                                                   *)

Lower == <<"a","b","c","d","e","f","g","h","i","j","k","l","m",
           "n","o","p","q","r","s","t","u","v","w","x","y","z">>
Upper == <<"A","B","C","D","E","F","G","H","I","J","K","L","M",
           "N","O","P","Q","R","S","T","U","V","W","X","Y","Z">>

\* str.upper() on one character: only lower-case letters change.
UpperChar(c) ==
    IF \E i \in 1..26 : Lower[i] = c
    THEN Upper[CHOOSE i \in 1..26 : Lower[i] = c]
    ELSE c

\* str.upper()
ToUpper(s) == [i \in 1..Len(s) |-> UpperChar(s[i])]

\* Python's None where a str is expected: a value no text equals.
None == <<"None">>

\* bool(x) of an optional str: None and "" are falsy.
Truthy(s) == s # None /\ s # <<>>

BUY == <<"B","U","Y">>
SELL == <<"S","E","L","L">>

\* d.get(k, default)
Get(d, k, default) == IF k \in DOMAIN d THEN d[k] ELSE default

EmptyDict == [k \in {} |-> 0]

---------------------------------------------------------------------------
(* Exceptions and log lines.                                               *)

NoExc == [type |-> "none", msg |-> ""]

ValueError(m) == [type |-> "ValueError", msg |-> m]
BinanceAPIException(m) == [type |-> "BinanceAPIException", msg |-> m]
ConnectionError == [type |-> "ConnectionError", msg |-> "transport failure"]
KeyError(k) == [type |-> "KeyError", msg |-> k]
KeyboardInterrupt == [type |-> "KeyboardInterrupt", msg |-> ""]
EOFError == [type |-> "EOFError", msg |-> "EOF when reading a line"]
TypeError == [type |-> "TypeError", msg |-> "float() argument must be a string or a number"]

\* isinstance(e, Exception): KeyboardInterrupt derives from BaseException only.
IsException(e) ==
    e.type \in {"ValueError", "BinanceAPIException", "ConnectionError", "KeyError",
                "EOFError", "TypeError"}

NoValue == [none |-> TRUE]
NoRequest == [endpoint |-> "none"]

---------------------------------------------------------------------------
(* Numbers read from text: str.strip(), int() and float().                 *)

Digits == <<"0","1","2","3","4","5","6","7","8","9">>

IsDigit(c) == \E i \in 1..10 : Digits[i] = c

DigitVal(c) == (CHOOSE i \in 1..10 : Digits[i] = c) - 1

RECURSIVE AllDigits(_)
AllDigits(s) == s = <<>> \/ (IsDigit(Head(s)) /\ AllDigits(Tail(s)))

RECURSIVE NatOf(_)
NatOf(s) == IF s = <<>> THEN 0
            ELSE 10 * NatOf(SubSeq(s, 1, Len(s) - 1)) + DigitVal(s[Len(s)])

RECURSIVE LStrip(_)
LStrip(s) == IF s # <<>> /\ Head(s) = " " THEN LStrip(Tail(s)) ELSE s

RECURSIVE RStrip(_)
RStrip(s) == IF s # <<>> /\ s[Len(s)] = " " THEN RStrip(SubSeq(s, 1, Len(s) - 1)) ELSE s

\* str.strip()
Strip(s) == RStrip(LStrip(s))

Unsigned(s) == IF s # <<>> /\ Head(s) \in {"-", "+"} THEN Tail(s) ELSE s
SignOf(s) == IF s # <<>> /\ Head(s) = "-" THEN -1 ELSE 1

\* int(text): optional sign, then one or more digits; anything else is a ValueError.
ParseInt(text) ==
    LET s == Strip(text)
        body == Unsigned(s)
    IN  IF body # <<>> /\ AllDigits(body)
        THEN [ok |-> TRUE, val |-> SignOf(s) * NatOf(body)]
        ELSE [ok |-> FALSE, val |-> 0]

DotAt(s) == IF \E i \in 1..Len(s) : s[i] = "."
            THEN CHOOSE i \in 1..Len(s) : s[i] = "."
            ELSE Len(s) + 1

\* The first three decimals of a fraction, padded with zeros.
Thousandths(frac) == SubSeq(frac \o <<"0", "0", "0">>, 1, 3)

\* float(text) for plain decimal text: optional sign, digits with at most one
\* point and at least one digit; anything else is a ValueError.  A float is
\* kept as a whole number of thousandths, so -0.0 and 0 are the same value;
\* the texts of the model have at most three decimals.
ParseFloat(text) ==
    LET s == Strip(text)
        body == Unsigned(s)
        d == DotAt(body)
        whole == SubSeq(body, 1, d - 1)
        frac == SubSeq(body, d + 1, Len(body))
    IN  IF (whole # <<>> \/ frac # <<>>) /\ AllDigits(whole) /\ AllDigits(frac)
        THEN [ok |-> TRUE, val |-> SignOf(s) * NatOf(whole \o Thousandths(frac))]
        ELSE [ok |-> FALSE, val |-> 0]

---------------------------------------------------------------------------
(* The exchange, seen through the client library.  It is the environment   *)
(* of the program: it keeps the orders placed so far, answers each request *)
(* from that state, and may reject a request or fail to answer.            *)

BTC == <<"B","T","C">>
btc == <<"b","t","c">>
ETH == <<"E","T","H">>
XYZ == <<"X","Y","Z">>

ListedSymbols == {BTC, ETH}

\* The exchange's record of an order, as its later responses show it.  Of the
\* fields of an order the model keeps these four; the others (side, type,
\* price, executedQty, avgPrice, time) are copied by the program in the same
\* way.
NewOrder(id, req) ==
    [orderId |-> id, symbol |-> req.symbol, origQty |-> req.quantity, status |-> "NEW"]

\* The response to the request that created order o: it also shows the side
\* and the type that were sent.
Created(o, req) ==
    [orderId |-> o.orderId, symbol |-> o.symbol, origQty |-> o.origQty,
     status |-> o.status, side |-> req.side, type |-> req.type]

IsOpen(o) == o.status = "NEW"

\* Open orders in orderId order, of one symbol when a filter is sent.
OpenOrders(os, filter) ==
    SelectSeq(os, LAMBDA o : IsOpen(o) /\ (filter = None \/ o.symbol = filter))

Found(os, req) ==
    req.orderId \in 1..Len(os) /\ os[req.orderId].symbol = req.symbol

AmtTexts == { <<"0">>, <<"0",".","0","0","0">>, <<"-","0",".","0">>,
              <<"1",".","5">>, <<"-","2">> }

\* An entry of the account response's 'positions'.
Position(sym, amt) ==
    [symbol |-> sym, positionAmt |-> amt, entryPrice |-> <<"7">>,
     unrealizedPnL |-> <<"-","3">>, percentage |-> <<"4">>]

PositionDicts ==
    { Position(BTC, <<"0">>), Position(BTC, <<"1",".","5">>),
      Position(ETH, <<"0",".","0","0","0">>), Position(ETH, <<"-","2">>),
      Position(BTC, <<"-","0",".","0">>),
      [symbol |-> ETH, entryPrice |-> <<"7">>],
      [symbol |-> BTC, positionAmt |-> <<"1",".","5">>, entryPrice |-> <<"7">>] }

RECURSIVE SeqsUpTo(_, _)
SeqsUpTo(S, n) ==
    IF n = 0 THEN { <<>> }
    ELSE LET shorter == SeqsUpTo(S, n - 1)
         IN  shorter \cup { Append(q, x) : q \in shorter, x \in S }

AccountResponses ==
    { [totalWalletBalance |-> <<"9">>, positions |-> ps] : ps \in SeqsUpTo(PositionDicts, MaxPositions) }

RejectedOrder == BinanceAPIException("Margin is insufficient.")
InvalidSymbol == BinanceAPIException("Invalid symbol.")
UnknownOrder == BinanceAPIException("Order does not exist.")
TooManyOrders == BinanceAPIException("Reach max open order limit.")

Answer(resp, os) == [raised |-> NoExc, response |-> resp, orders |-> os]
Refusal(e, os) == [raised |-> e, response |-> NoValue, orders |-> os]

\* Every way the exchange can answer request req in state os.
ExchangeAnswers(req, os) ==
    CASE req.endpoint = "futures_account" ->
            { Answer(r, os) : r \in AccountResponses }
      [] req.endpoint = "futures_symbol_ticker" ->
            IF req.symbol \in ListedSymbols
            THEN { Answer([symbol |-> req.symbol, price |-> <<"1",".","5">>], os) }
            ELSE { Refusal(InvalidSymbol, os) }
      [] req.endpoint = "futures_create_order" ->
            IF req.symbol \notin ListedSymbols THEN { Refusal(InvalidSymbol, os) }
            ELSE IF Len(os) >= MaxOrders THEN { Refusal(TooManyOrders, os) }
            ELSE LET o == NewOrder(Len(os) + 1, req)
                 IN  { Answer(Created(o, req), Append(os, o)), Refusal(RejectedOrder, os) }
      [] req.endpoint = "futures_get_order" ->
            IF Found(os, req) THEN { Answer(os[req.orderId], os) }
            ELSE { Refusal(UnknownOrder, os) }
      [] req.endpoint = "futures_cancel_order" ->
            IF Found(os, req) /\ IsOpen(os[req.orderId])
            THEN LET o == [os[req.orderId] EXCEPT !.status = "CANCELED"]
                 IN  { Answer(o, [os EXCEPT ![req.orderId] = o]) }
            ELSE { Refusal(UnknownOrder, os) }
      [] req.endpoint = "futures_get_open_orders" ->
            IF req.symbol # None /\ req.symbol \notin ListedSymbols
            THEN { Refusal(InvalidSymbol, os) }
            ELSE { Answer(OpenOrders(os, req.symbol), os) }

---------------------------------------------------------------------------
(* BinanceFuturesBot: each method is a try block (validation, one client   *)
(* call, the work on the response) and its except clauses.  For a method m *)
(*   m_validate(a)      the exception its validation raises, or NoExc;     *)
(*   m_call(a)          the client call it makes;                          *)
(*   m_return(a, resp)  what it does with the response: the exception it   *)
(*                      raises or the value it returns, and the log lines. *)

Info(m) == [level |-> "INFO", msg |-> m, e |-> NoExc]
Error(m, e) == [level |-> "ERROR", msg |-> m, e |-> e]

\* The client the library builds: it keeps the credentials and the URL the
\* calls of this client go to.
Client(api_key, api_secret, testnet, url) ==
    [api_key |-> api_key, api_secret |-> api_secret, testnet |-> testnet, API_URL |-> url]

\* A constructor that takes the live branch whatever `testnet` is.
BinanceFuturesBot_live(api_key, api_secret, testnet) ==
    [api_key |-> api_key, api_secret |-> api_secret, testnet |-> testnet,
     client |-> Client(api_key, api_secret, FALSE, "default")]

\* __init__: the object after a successful construction.  The three
\* attributes and the client are assigned here and in no other method.
BinanceFuturesBot(api_key, api_secret, testnet) ==
    [api_key |-> api_key, api_secret |-> api_secret, testnet |-> testnet,
     client |-> IF testnet
                THEN Client(api_key, api_secret, TRUE, "https://testnet.binancefuture.com")
                ELSE Client(api_key, api_secret, FALSE, "default")]

Returns(v, lines) == [raised |-> NoExc, result |-> v, log |-> lines]
Raises(e, lines) == [raised |-> e, result |-> NoValue, log |-> lines]

\* The first key of keys that dict d lacks (d[k] raises KeyError(k)), or "".
RECURSIVE FirstMissing(_, _)
FirstMissing(d, keys) ==
    IF keys = <<>> THEN ""
    ELSE IF Head(keys) \notin DOMAIN d THEN Head(keys)
    ELSE FirstMissing(d, Tail(keys))

\* The position filter comparing the text of positionAmt with "0".
NonZeroPosition_astext(position) ==
    "positionAmt" \in DOMAIN position /\ position.positionAmt # <<"0">>

\* float(position.get('positionAmt', 0)) != 0
NonZeroPosition(position) ==
    IF "positionAmt" \in DOMAIN position
    THEN ParseFloat(position.positionAmt).val # 0
    ELSE 0 # 0

\* The entry get_account_info appends for one position of the response.
PositionEntry(position) ==
    [symbol |-> Get(position, "symbol", None),
     size |-> Get(position, "positionAmt", None),
     entry_price |-> Get(position, "entryPrice", None),
     unrealized_pnl |-> Get(position, "unrealizedPnL", None),
     percentage |-> Get(position, "percentage", None)]

get_account_info_call(a) == [endpoint |-> "futures_account"]

get_account_info_return(a, account_info) ==
    LET positions == Get(account_info, "positions", <<>>)
        kept == SelectSeq(positions, NonZeroPosition)
    IN  IF \E i \in 1..Len(positions) :
               "positionAmt" \in DOMAIN positions[i]
               /\ ~ParseFloat(positions[i].positionAmt).ok
        THEN Raises(ValueError("could not convert string to float"), <<>>)
        ELSE Returns(
               [total_wallet_balance |-> Get(account_info, "totalWalletBalance", <<"0">>),
                positions |-> [i \in 1..Len(kept) |-> PositionEntry(kept[i])]],
               << Info("Account information retrieved successfully") >>)

get_current_price_call(a) ==
    [endpoint |-> "futures_symbol_ticker", symbol |-> ToUpper(a.symbol)]

get_current_price_return(a, ticker) ==
    IF "price" \notin DOMAIN ticker THEN Raises(KeyError("price"), <<>>)
    ELSE IF ~ParseFloat(ticker.price).ok
    THEN Raises(ValueError("could not convert string to float"), <<>>)
    ELSE Returns(ParseFloat(ticker.price).val, << Info("Current price") >>)

place_market_order_validate(a) ==
    IF ToUpper(a.side) \notin {BUY, SELL} THEN ValueError("Side must be 'BUY' or 'SELL'")
    ELSE IF a.quantity <= 0 THEN ValueError("Quantity must be positive")
    ELSE NoExc

place_market_order_call(a) ==
    [endpoint |-> "futures_create_order", symbol |-> ToUpper(a.symbol),
     side |-> ToUpper(a.side), type |-> "MARKET", quantity |-> a.quantity]

place_market_order_return(a, order) ==
    IF "orderId" \notin DOMAIN order
    THEN Raises(KeyError("orderId"), << Info("Market order placed") >>)
    ELSE Returns(order, << Info("Market order placed"), Info("Order ID") >>)

\* place_limit_order without its check of the side.
place_limit_order_validate_noside(a) ==
    IF a.quantity <= 0 THEN ValueError("Quantity must be positive")
    ELSE IF a.price <= 0 THEN ValueError("Price must be positive")
    ELSE NoExc

place_limit_order_validate(a) ==
    IF ToUpper(a.side) \notin {BUY, SELL} THEN ValueError("Side must be 'BUY' or 'SELL'")
    ELSE IF a.quantity <= 0 THEN ValueError("Quantity must be positive")
    ELSE IF a.price <= 0 THEN ValueError("Price must be positive")
    ELSE NoExc

place_limit_order_call(a) ==
    [endpoint |-> "futures_create_order", symbol |-> ToUpper(a.symbol),
     side |-> ToUpper(a.side), type |-> "LIMIT", timeInForce |-> "GTC",
     quantity |-> a.quantity, price |-> a.price]

place_limit_order_return(a, order) ==
    IF "orderId" \notin DOMAIN order
    THEN Raises(KeyError("orderId"), << Info("Limit order placed") >>)
    ELSE Returns(order, << Info("Limit order placed"), Info("Order ID") >>)

\* place_stop_limit_order checking the stop price only.
place_stop_limit_order_validate_stoponly(a) ==
    IF ToUpper(a.side) \notin {BUY, SELL} THEN ValueError("Side must be 'BUY' or 'SELL'")
    ELSE IF a.quantity <= 0 THEN ValueError("Quantity must be positive")
    ELSE IF a.stop_price <= 0
    THEN ValueError("Stop price and limit price must be positive")
    ELSE NoExc

place_stop_limit_order_validate(a) ==
    IF ToUpper(a.side) \notin {BUY, SELL} THEN ValueError("Side must be 'BUY' or 'SELL'")
    ELSE IF a.quantity <= 0 THEN ValueError("Quantity must be positive")
    ELSE IF a.stop_price <= 0 \/ a.limit_price <= 0
    THEN ValueError("Stop price and limit price must be positive")
    ELSE NoExc

place_stop_limit_order_call(a) ==
    [endpoint |-> "futures_create_order", symbol |-> ToUpper(a.symbol),
     side |-> ToUpper(a.side), type |-> "STOP", timeInForce |-> "GTC",
     quantity |-> a.quantity, price |-> a.limit_price, stopPrice |-> a.stop_price]

place_stop_limit_order_return(a, order) ==
    IF "orderId" \notin DOMAIN order
    THEN Raises(KeyError("orderId"), << Info("Stop-limit order placed"), Info("Stop, Limit") >>)
    ELSE Returns(order, << Info("Stop-limit order placed"), Info("Stop, Limit"), Info("Order ID") >>)

\* get_order_status sending the symbol as typed.
get_order_status_call_raw(a) ==
    [endpoint |-> "futures_get_order", symbol |-> a.symbol, orderId |-> a.order_id]

get_order_status_call(a) ==
    [endpoint |-> "futures_get_order", symbol |-> ToUpper(a.symbol), orderId |-> a.order_id]

StatusKeys == <<"orderId", "symbol", "status", "origQty">>

get_order_status_return(a, order) ==
    IF FirstMissing(order, StatusKeys) # ""
    THEN Raises(KeyError(FirstMissing(order, StatusKeys)), <<>>)
    ELSE Returns([orderId |-> order.orderId, symbol |-> order.symbol,
                  status |-> order.status, origQty |-> order.origQty],
                 << Info("Order status retrieved") >>)

cancel_order_call(a) ==
    [endpoint |-> "futures_cancel_order", symbol |-> ToUpper(a.symbol), orderId |-> a.order_id]

cancel_order_return(a, res) == Returns(res, << Info("Order cancelled successfully") >>)

\* get_open_orders never sending its filter.
get_open_orders_call_nofilter(a) ==
    [endpoint |-> "futures_get_open_orders", symbol |-> None]

get_open_orders_call(a) ==
    IF Truthy(a.symbol)
    THEN [endpoint |-> "futures_get_open_orders", symbol |-> ToUpper(a.symbol)]
    ELSE [endpoint |-> "futures_get_open_orders", symbol |-> None]

get_open_orders_return(a, os) == Returns(os, << Info("Retrieved open orders") >>)

Placements == {"place_market_order", "place_limit_order", "place_stop_limit_order"}

Methods == Placements \cup {"get_account_info", "get_current_price", "get_order_status",
                            "cancel_order", "get_open_orders"}

\* The validation at the head of method m's try block.
Validation(m, a) ==
    CASE m = "place_market_order" -> place_market_order_validate(a)
      [] m = "place_limit_order" -> place_limit_order_validate(a)
      [] m = "place_stop_limit_order" -> place_stop_limit_order_validate(a)
      [] OTHER -> NoExc

\* The one client call of method m.
ClientCall(m, a) ==
    CASE m = "get_account_info" -> get_account_info_call(a)
      [] m = "get_current_price" -> get_current_price_call(a)
      [] m = "place_market_order" -> place_market_order_call(a)
      [] m = "place_limit_order" -> place_limit_order_call(a)
      [] m = "place_stop_limit_order" -> place_stop_limit_order_call(a)
      [] m = "get_order_status" -> get_order_status_call(a)
      [] m = "cancel_order" -> cancel_order_call(a)
      [] m = "get_open_orders" -> get_open_orders_call(a)

\* The rest of method m's try block, after the client call returned resp.
Return(m, a, resp) ==
    CASE m = "get_account_info" -> get_account_info_return(a, resp)
      [] m = "get_current_price" -> get_current_price_return(a, resp)
      [] m = "place_market_order" -> place_market_order_return(a, resp)
      [] m = "place_limit_order" -> place_limit_order_return(a, resp)
      [] m = "place_stop_limit_order" -> place_stop_limit_order_return(a, resp)
      [] m = "get_order_status" -> get_order_status_return(a, resp)
      [] m = "cancel_order" -> cancel_order_return(a, resp)
      [] m = "get_open_orders" -> get_open_orders_return(a, resp)

\* Except clauses that log exchange-reported errors only.
ExceptClause_apionly(m, e) ==
    IF e.type = "BinanceAPIException" THEN << Error("API error", e) >> ELSE <<>>

\* The except clause of method m that catches e: the log line it writes
\* before its bare raise, or <<>> when no clause catches e.
ExceptClause(m, e) ==
    IF e.type = "BinanceAPIException" THEN << Error("API error", e) >>
    ELSE IF e.type = "ValueError" /\ m \in Placements THEN << Error("Invalid input", e) >>
    ELSE IF IsException(e) THEN << Error("Unexpected error", e) >>
    ELSE <<>>

\* What the bare `raise` of method m's except clause raises: e itself.
Reraised(m, e) == e

---------------------------------------------------------------------------
(* The steps of one wrapper invocation.                                    *)
(*   Invoke -> requested -> responded -> returned                          *)
(*        \________\____________\___-> except -> returned                  *)

\* The caller invokes method m with arguments a, and the try block runs up to
\* the client call: validation raises, or the call is made.  n is the number
\* of exchange calls counted so far.
Invoke(m, a, n) ==
    /\ op' = m
    /\ args' = a
    /\ response' = NoValue
    /\ result' = NoValue
    /\ log' = <<>>
    /\ LET e == Validation(m, a)
       IN  IF e # NoExc
           THEN /\ exc' = e
                /\ raisedBy' = e
                /\ pc' = "except"
                /\ request' = NoRequest
                /\ netCalls' = n
           ELSE /\ request' = ClientCall(m, a)
                /\ netCalls' = n + 1
                /\ pc' = "requested"
                /\ exc' = NoExc
                /\ raisedBy' = NoExc

\* The exchange answers the request, or reports an error for it.
ExchangeAnswer ==
    /\ pc = "requested"
    /\ \E ans \in ExchangeAnswers(request, orders) :
          /\ orders' = ans.orders
          /\ IF ans.raised = NoExc
             THEN /\ response' = ans.response
                  /\ pc' = "responded"
                  /\ UNCHANGED <<exc, raisedBy>>
             ELSE /\ exc' = ans.raised
                  /\ raisedBy' = ans.raised
                  /\ pc' = "except"
                  /\ UNCHANGED response
    /\ UNCHANGED <<op, args, request, netCalls, result, log>>
    /\ UNCHANGED <<placed, bot, shellVars>>

\* The client returns a response without the fields the wrapper reads.
MalformedResponse ==
    /\ pc = "requested"
    /\ request.endpoint \notin {"futures_get_open_orders", "futures_account"}
    /\ response' = EmptyDict
    /\ pc' = "responded"
    /\ UNCHANGED <<op, args, request, netCalls, exc, raisedBy, result, log, orders>>
    /\ UNCHANGED <<placed, bot, shellVars>>

\* The client call fails without an answer from the exchange.
TransportFailure ==
    /\ pc = "requested"
    /\ exc' = ConnectionError
    /\ raisedBy' = ConnectionError
    /\ pc' = "except"
    /\ UNCHANGED <<op, args, request, netCalls, response, result, log, orders>>
    /\ UNCHANGED <<placed, bot, shellVars>>

\* The user presses Ctrl+C while the client call blocks.
InterruptedCall ==
    /\ pc = "requested"
    /\ exc' = KeyboardInterrupt
    /\ raisedBy' = KeyboardInterrupt
    /\ pc' = "except"
    /\ UNCHANGED <<op, args, request, netCalls, response, result, log, orders>>
    /\ UNCHANGED <<placed, bot, shellVars>>

\* The try block after the client call: log, build the value, return.
AfterCall ==
    /\ pc = "responded"
    /\ LET r == Return(op, args, response)
       IN  /\ log' = log \o r.log
           /\ IF r.raised = NoExc
              THEN /\ result' = r.result
                   /\ pc' = "returned"
                   /\ UNCHANGED <<exc, raisedBy>>
              ELSE /\ exc' = r.raised
                   /\ raisedBy' = r.raised
                   /\ pc' = "except"
                   /\ UNCHANGED result
    /\ UNCHANGED <<op, args, request, netCalls, response, orders>>
    /\ UNCHANGED <<placed, bot, shellVars>>

\* Except clauses that issue the client call once more after a transport failure.
ExceptBlock_retry ==
    /\ pc = "except"
    /\ log' = log \o ExceptClause(op, exc)
    /\ IF exc = ConnectionError /\ netCalls < 2
       THEN /\ pc' = "requested"
            /\ netCalls' = netCalls + 1
            /\ exc' = NoExc
       ELSE /\ pc' = "returned"
            /\ exc' = Reraised(op, exc)
            /\ UNCHANGED netCalls
    /\ UNCHANGED <<op, args, request, response, raisedBy, result, orders>>
    /\ UNCHANGED <<placed, bot, shellVars>>

\* The except clauses: log the error and re-raise it with a bare raise.
ExceptBlock ==
    /\ pc = "except"
    /\ log' = log \o ExceptClause(op, exc)
    /\ exc' = Reraised(op, exc)
    /\ pc' = "returned"
    /\ UNCHANGED <<op, args, request, netCalls, response, raisedBy, result, orders>>
    /\ UNCHANGED <<placed, bot, shellVars>>

\* The exchange fills an open order.  The client is synchronous and reads the
\* exchange only in ExchangeAnswer, so a fill during a call is the same as one
\* just before or just after it.
ExchangeFill ==
    /\ pc \in {"ready", "menu"}
    /\ \E i \in 1..Len(orders) :
          /\ IsOpen(orders[i])
          /\ orders' = [orders EXCEPT ![i].status = "FILLED"]
    /\ UNCHANGED <<pc, op, args, request, netCalls, response, exc, raisedBy, result, log>>
    /\ UNCHANGED <<placed, bot, shellVars>>

WrapperStep ==
    \/ ExchangeAnswer
    \/ MalformedResponse
    \/ TransportFailure
    \/ InterruptedCall
    \/ AfterCall
    \/ ExceptBlock
    \/ ExchangeFill

---------------------------------------------------------------------------
(* WrapperSpec: a caller of the wrapper's methods.                         *)

Symbols == {BTC, btc, ETH, XYZ}
Sides == {BUY, <<"b","u","y">>, SELL, <<"H","O","L","D">>}
Numbers == {-1, 0, 1}
OrderIds == 0..(MaxOrders + 1)

\* What main() printed last: the kind of message, the exception it shows and
\* the menu action it is about.
Shown(k, e) == [kind |-> k, e |-> e, action |-> choice]

Idle ==
    /\ placed = NoValue
    /\ op = "none"
    /\ args = NoValue
    /\ request = NoRequest
    /\ netCalls = 0
    /\ response = NoValue
    /\ exc = NoExc
    /\ raisedBy = NoExc
    /\ result = NoValue
    /\ log = <<>>

ShellUnused ==
    /\ choice = 0
    /\ collected = <<>>
    /\ display = Shown("none", NoExc)
    /\ exitedBy = "none"
    /\ entered = NoValue

\* The caller drops what the finished invocation left behind.
Forget ==
    /\ op' = "none"
    /\ args' = NoValue
    /\ request' = NoRequest
    /\ netCalls' = 0
    /\ response' = NoValue
    /\ exc' = NoExc
    /\ raisedBy' = NoExc
    /\ result' = NoValue
    /\ log' = <<>>

\* The key and the secret of the account.
KEY == <<"k">>
SECRET == <<"s">>

\* The caller has constructed the bot, for the test network or the live one.
WrapperInit ==
    /\ pc = "ready"
    /\ Idle
    /\ bot \in { BinanceFuturesBot(KEY, SECRET, testnet) : testnet \in BOOLEAN }
    /\ orders = <<>>
    /\ ShellUnused

CallAccountInfo ==
    /\ pc = "ready"
    /\ Invoke("get_account_info", NoValue, 0)
    /\ UNCHANGED <<placed, bot, orders, shellVars>>

CallCurrentPrice ==
    /\ pc = "ready"
    /\ \E sym \in Symbols : Invoke("get_current_price", [symbol |-> sym], 0)
    /\ UNCHANGED <<placed, bot, orders, shellVars>>

CallMarketOrder ==
    /\ pc = "ready"
    /\ \E sym \in Symbols, sd \in Sides, q \in Numbers :
          Invoke("place_market_order", [symbol |-> sym, side |-> sd, quantity |-> q], 0)
    /\ UNCHANGED <<placed, bot, orders, shellVars>>

CallLimitOrder ==
    /\ pc = "ready"
    /\ \E sym \in Symbols, sd \in Sides, q \in Numbers, p \in Numbers :
          Invoke("place_limit_order",
                [symbol |-> sym, side |-> sd, quantity |-> q, price |-> p], 0)
    /\ UNCHANGED <<placed, bot, orders, shellVars>>

CallStopLimitOrder ==
    /\ pc = "ready"
    /\ \E sym \in Symbols, sd \in Sides, q \in Numbers, sp \in Numbers, lp \in Numbers :
          Invoke("place_stop_limit_order",
                [symbol |-> sym, side |-> sd, quantity |-> q,
                 stop_price |-> sp, limit_price |-> lp], 0)
    /\ UNCHANGED <<placed, bot, orders, shellVars>>

CallOrderStatus ==
    /\ pc = "ready"
    /\ \E sym \in Symbols, id \in OrderIds :
          Invoke("get_order_status", [symbol |-> sym, order_id |-> id], 0)
    /\ UNCHANGED <<placed, bot, orders, shellVars>>

CallCancelOrder ==
    /\ pc = "ready"
    /\ \E sym \in Symbols, id \in OrderIds :
          Invoke("cancel_order", [symbol |-> sym, order_id |-> id], 0)
    /\ UNCHANGED <<placed, bot, orders, shellVars>>

CallOpenOrders ==
    /\ pc = "ready"
    /\ \E sym \in Symbols \cup {None, <<>>} : Invoke("get_open_orders", [symbol |-> sym], 0)
    /\ UNCHANGED <<placed, bot, orders, shellVars>>

\* The caller queries the status of the market order it has just placed,
\* with the symbol it placed it for and the identifier of the returned Order.
CallStatusOfPlaced ==
    /\ pc = "returned"
    /\ op = "place_market_order"
    /\ exc = NoExc
    /\ placed' = [symbol |-> args.symbol, side |-> args.side,
                  quantity |-> args.quantity, order |-> result]
    /\ Invoke("get_order_status", [symbol |-> args.symbol, order_id |-> result.orderId], 0)
    /\ UNCHANGED <<bot, orders, shellVars>>

\* The caller has the value or the exception, and is ready for the next call.
CallerResumes ==
    /\ pc = "returned"
    /\ pc' = "ready"
    /\ placed' = NoValue
    /\ Forget
    /\ UNCHANGED <<bot, orders, shellVars>>

WrapperNext ==
    \/ CallAccountInfo
    \/ CallCurrentPrice
    \/ CallMarketOrder
    \/ CallLimitOrder
    \/ CallStopLimitOrder
    \/ CallOrderStatus
    \/ CallCancelOrder
    \/ CallOpenOrders
    \/ CallStatusOfPlaced
    \/ CallerResumes
    \/ WrapperStep

WrapperSpec == WrapperInit /\ [][WrapperNext]_vars

---------------------------------------------------------------------------
(* Spec: main(), the menu loop.                                            *)
(*   menu      display_menu() was printed; the choice prompt waits;        *)
(*   prompt    a parameter prompt of the selected action waits;            *)
(*   requested .. returned   the wrapper method of the action runs;        *)
(*   exited    the loop has ended.                                         *)

\* Prompts whose validation functions accept every value.
Valid_any(check, v) == TRUE

\* The validation functions main() passes to get_user_input.
Valid(check, v) ==
    CASE check = "side" -> ToUpper(v) \in {BUY, SELL}
      [] check = "positive" -> v > 0
      [] OTHER -> TRUE

\* A Python value together with its type; None.
PyValue(t, v) == [type |-> t, val |-> v]
NoneValue == PyValue("NoneType", None)

\* A loop that returns whatever parses, without calling validation_func.
get_user_input_unvalidated(text, input_type, check) ==
    LET user_input == Strip(text)
        parsed == CASE input_type = "str" -> [ok |-> TRUE, val |-> user_input]
                    [] input_type = "int" -> ParseInt(user_input)
                    [] input_type = "float" -> ParseFloat(user_input)
                    [] OTHER -> [ok |-> FALSE, val |-> 0]
    IN  IF ~parsed.ok THEN [kind |-> "again", type |-> "none", val |-> 0]
        ELSE [kind |-> "return", type |-> input_type, val |-> parsed.val]

\* One round of get_user_input's loop on the typed text: the value it
\* returns, or "again" when it prints a message and prompts again.  An
\* input_type other than str, int and float raises ValueError inside the
\* try block, which the loop's own except clause catches.
get_user_input(text, input_type, check) ==
    LET user_input == Strip(text)
        parsed == CASE input_type = "str" -> [ok |-> TRUE, val |-> user_input]
                    [] input_type = "int" -> ParseInt(user_input)
                    [] input_type = "float" -> ParseFloat(user_input)
                    [] OTHER -> [ok |-> FALSE, val |-> 0]
    IN  IF ~parsed.ok THEN [kind |-> "again", type |-> "none", val |-> 0]
        ELSE IF check # "none" /\ ~Valid(check, parsed.val)
        THEN [kind |-> "again", type |-> "none", val |-> 0]
        ELSE [kind |-> "return", type |-> input_type, val |-> parsed.val]

\* A test that takes only empty text for missing input.
Falsy_emptytext(input_type, v) == input_type = "str" /\ v = <<>>

\* `not v` for a value get_user_input returned for the given type.
Falsy(input_type, v) == IF input_type = "str" THEN v = <<>> ELSE v = 0

Ask(t, c) == [type |-> t, check |-> c]
SymbolPrompt == Ask("str", "none")
SidePrompt == Ask("str", "side")
PositivePrompt == Ask("float", "positive")
OrderIdPrompt == Ask("int", "none")

\* An if/elif chain whose last test is `choice >= 9`.
Branch_atleast9(c) ==
    IF c = 1 THEN "call"
    ELSE IF c \in 2..8 THEN "prompt"
    ELSE IF c >= 9 THEN "exit"
    ELSE "invalid"

\* The branch of main()'s if/elif chain that the integer c selects: action 1
\* calls the wrapper at once, actions 2 to 8 prompt first, 9 exits, and the
\* else branch prints "Invalid choice".
Branch(c) ==
    IF c = 1 THEN "call"
    ELSE IF c \in 2..8 THEN "prompt"
    ELSE IF c = 9 THEN "exit"
    ELSE "invalid"

\* The parameter prompts of menu action c, in order.
Prompts(c) ==
    CASE c = 2 -> << SymbolPrompt >>
      [] c = 3 -> << SymbolPrompt, SidePrompt, PositivePrompt >>
      [] c = 4 -> << SymbolPrompt, SidePrompt, PositivePrompt, PositivePrompt >>
      [] c = 5 -> << SymbolPrompt, SidePrompt, PositivePrompt, PositivePrompt, PositivePrompt >>
      [] c = 6 -> << SymbolPrompt, OrderIdPrompt >>
      [] c = 7 -> << SymbolPrompt, OrderIdPrompt >>
      [] c = 8 -> << SymbolPrompt >>
      [] OTHER -> <<>>

\* The wrapper method of menu action c.
Method(c) ==
    CASE c = 1 -> "get_account_info"
      [] c = 2 -> "get_current_price"
      [] c = 3 -> "place_market_order"
      [] c = 4 -> "place_limit_order"
      [] c = 5 -> "place_stop_limit_order"
      [] c = 6 -> "get_order_status"
      [] c = 7 -> "cancel_order"
      [] c = 8 -> "get_open_orders"

\* The arguments main() passes for menu action c from the values v it read.
Arguments(c, v) ==
    CASE c = 1 -> NoValue
      [] c = 2 -> [symbol |-> v[1]]
      [] c = 3 -> [symbol |-> v[1], side |-> v[2], quantity |-> v[3]]
      [] c = 4 -> [symbol |-> v[1], side |-> v[2], quantity |-> v[3], price |-> v[4]]
      [] c = 5 -> [symbol |-> v[1], side |-> v[2], quantity |-> v[3],
                   stop_price |-> v[4], limit_price |-> v[5]]
      [] c = 6 -> [symbol |-> v[1], order_id |-> v[2]]
      [] c = 7 -> [symbol |-> v[1], order_id |-> v[2]]
      [] c = 8 -> [symbol |-> v[1]]

\* format_account_info(account_info) raises TypeError on float(None).
FormatFails(m, value) ==
    /\ m = "get_account_info"
    /\ \E i \in 1..Len(value.positions) :
          \/ value.positions[i].unrealized_pnl = None
          \/ value.positions[i].entry_price = None

ChoiceTexts ==
    { <<"1">>, <<"2">>, <<"3">>, <<"4">>, <<"5">>, <<"6">>, <<"7">>, <<"8">>, <<"9">>,
      <<"0">>, <<"1","0">>, <<"-","1">>, <<" ","8"," ">>, <<"x">>, <<>> }

SymbolTexts == { BTC, btc, ETH, XYZ, <<>>, <<" ">> }
SideTexts == { BUY, <<"b","u","y">>, SELL, <<"H","O","L","D">>, <<>> }
FloatTexts == { <<"0",".","5">>, <<"0">>, <<"-","1">>, <<"0",".","0">>, <<"x">> }
OrderIdTexts == { <<"1">>, <<"2">>, <<"3">>, <<"0">>, <<"-","1">>, <<"1",".","0">>, <<>> }

\* What the user may type at a prompt.
Typed(ask) ==
    IF ask.type = "int" THEN OrderIdTexts
    ELSE IF ask.type = "float" THEN FloatTexts
    ELSE IF ask.check = "side" THEN SideTexts
    ELSE SymbolTexts

\* os.environ after load_dotenv(): each of the two variables may be unset or empty.
Environs ==
    { [BINANCE_API_KEY |-> KEY, BINANCE_API_SECRET |-> SECRET],
      [BINANCE_API_KEY |-> KEY],
      [BINANCE_API_SECRET |-> SECRET],
      [BINANCE_API_KEY |-> <<>>, BINANCE_API_SECRET |-> SECRET],
      EmptyDict }

\* What the user may type at the two credential prompts.
KeyTexts == { KEY, <<" ","k"," ">>, <<>>, <<" ">> }
SecretTexts == { SECRET, <<>> }

\* main() starts: no bot yet.
Init ==
    /\ pc = "start"
    /\ Idle
    /\ bot = NoValue
    /\ orders = <<>>
    /\ choice = 0
    /\ collected = <<>>
    /\ display = Shown("none", NoExc)
    /\ exitedBy = "none"
    /\ entered = NoValue

\* The credentials are read from the environment; if either is missing or
\* empty, both are asked for.
LoadCredentials ==
    /\ pc = "start"
    /\ \E environ \in Environs :
          LET api_key == Get(environ, "BINANCE_API_KEY", None)
              api_secret == Get(environ, "BINANCE_API_SECRET", None)
          IN  IF ~Truthy(api_key) \/ ~Truthy(api_secret)
              THEN /\ pc' = "credentials"
                   /\ collected' = <<>>
              ELSE /\ pc' = "connect"
                   /\ collected' = << api_key, api_secret >>
    /\ UNCHANGED <<bot, orders, placed, choice, display, exitedBy, entered>>
    /\ UNCHANGED wrapperVars

\* The user answers the key prompt, then the secret prompt; an empty answer
\* makes main() return.
CredentialInput ==
    /\ pc = "credentials"
    /\ \E text \in (IF collected = <<>> THEN KeyTexts ELSE SecretTexts) :
          LET r == get_user_input(text, "str", "none")
          IN  /\ r.kind = "return"
              /\ entered' = PyValue(r.type, r.val)
              /\ IF ~Truthy(r.val)
                 THEN /\ pc' = "exited"
                      /\ exitedBy' = "no credentials"
                      /\ UNCHANGED collected
                 ELSE /\ collected' = Append(collected, r.val)
                      /\ pc' = IF collected = <<>> THEN "credentials" ELSE "connect"
                      /\ UNCHANGED exitedBy
    /\ UNCHANGED <<bot, orders, placed, choice, display>>
    /\ UNCHANGED wrapperVars

\* Ctrl+C at a credential prompt: get_user_input returns None, main() returns.
CredentialInterrupt ==
    /\ pc = "credentials"
    /\ entered' = NoneValue
    /\ pc' = "exited"
    /\ exitedBy' = "no credentials"
    /\ UNCHANGED <<bot, orders, placed, choice, collected, display>>
    /\ UNCHANGED wrapperVars

\* BinanceFuturesBot(api_key, api_secret, testnet=True) succeeds: the loop starts.
ConnectSucceeds ==
    /\ pc = "connect"
    /\ bot' = BinanceFuturesBot(collected[1], collected[2], TRUE)
    /\ pc' = "menu"
    /\ collected' = <<>>
    /\ UNCHANGED <<orders, placed, choice, display, exitedBy, entered>>
    /\ UNCHANGED wrapperVars

\* The constructor raises: main() prints the failure and returns.
ConnectFails ==
    /\ pc = "connect"
    /\ pc' = "exited"
    /\ exitedBy' = "connect failed"
    /\ display' = Shown("failed to connect", ConnectionError)
    /\ collected' = <<>>
    /\ UNCHANGED <<bot, orders, placed, choice, entered>>
    /\ UNCHANGED wrapperVars

\* Back to the top of the loop: display_menu() and the choice prompt.
ToMenu(shown) ==
    /\ pc' = "menu"
    /\ display' = shown
    /\ choice' = 0
    /\ collected' = <<>>
    /\ Forget

\* The user answers the choice prompt.
MenuChoice ==
    /\ pc = "menu"
    /\ \E text \in ChoiceTexts :
          LET r == get_user_input(text, "int", "none")
          IN  /\ entered' = IF r.kind = "again" THEN entered ELSE PyValue(r.type, r.val)
              /\ IF r.kind = "again"
                 THEN /\ display' = Shown("invalid input", NoExc)
                      /\ UNCHANGED <<pc, choice, collected, exitedBy>>
                      /\ UNCHANGED wrapperVars
                 ELSE IF Branch(r.val) = "call"
                 THEN /\ choice' = r.val
                      /\ Invoke(Method(r.val), Arguments(r.val, <<>>), netCalls)
                      /\ display' = Shown("none", NoExc)
                      /\ UNCHANGED <<collected, exitedBy>>
                 ELSE IF Branch(r.val) = "prompt"
                 THEN /\ choice' = r.val
                      /\ pc' = "prompt"
                      /\ display' = Shown("none", NoExc)
                      /\ UNCHANGED <<collected, exitedBy>>
                      /\ UNCHANGED wrapperVars
                 ELSE IF Branch(r.val) = "exit"
                 THEN /\ choice' = r.val
                      /\ pc' = "exited"
                      /\ exitedBy' = "exit"
                      /\ display' = Shown("goodbye", NoExc)
                      /\ UNCHANGED collected
                      /\ UNCHANGED wrapperVars
                 ELSE /\ pc' = "menu"
                      /\ choice' = r.val
                      /\ display' = [kind |-> "invalid choice", e |-> NoExc, action |-> r.val]
                      /\ UNCHANGED <<collected, exitedBy>>
                      /\ UNCHANGED wrapperVars
    /\ UNCHANGED <<bot, orders, placed>>

\* Ctrl+C at the choice prompt: get_user_input returns None and main() breaks.
MenuInterrupt ==
    /\ pc = "menu"
    /\ pc' = "exited"
    /\ exitedBy' = "interrupt"
    /\ display' = Shown("cancelled", NoExc)
    /\ entered' = NoneValue
    /\ UNCHANGED <<choice, collected, bot, orders, placed>>
    /\ UNCHANGED wrapperVars

\* The user answers a parameter prompt.
ParameterInput ==
    /\ pc = "prompt"
    /\ LET ask == Prompts(choice)[Len(collected) + 1]
       IN  \E text \in Typed(ask) :
             LET r == get_user_input(text, ask.type, ask.check)
                 values == Append(collected, r.val)
             IN  /\ entered' = IF r.kind = "again" THEN entered ELSE PyValue(r.type, r.val)
                 /\ IF r.kind = "again"
                    THEN /\ display' = Shown("invalid input", NoExc)
                         /\ UNCHANGED <<pc, choice, collected>>
                         /\ UNCHANGED wrapperVars
                    ELSE IF choice = 8
                    THEN /\ Invoke("get_open_orders",
                                   Arguments(8, << IF Truthy(r.val) THEN r.val ELSE None >>),
                                   netCalls)
                         /\ collected' = values
                         /\ UNCHANGED <<choice, display>>
                    ELSE IF Falsy(ask.type, r.val)
                    THEN ToMenu(Shown("none", NoExc))
                    ELSE IF Len(values) < Len(Prompts(choice))
                    THEN /\ collected' = values
                         /\ UNCHANGED <<pc, choice, display>>
                         /\ UNCHANGED wrapperVars
                    ELSE /\ Invoke(Method(choice), Arguments(choice, values), netCalls)
                         /\ collected' = values
                         /\ UNCHANGED <<choice, display>>
    /\ UNCHANGED <<bot, orders, exitedBy, placed>>

\* Ctrl+C at a parameter prompt: get_user_input prints "Operation cancelled
\* by user." and returns None.
ParameterInterrupt ==
    /\ pc = "prompt"
    /\ IF choice = 8
       THEN /\ Invoke("get_open_orders", Arguments(8, << None >>), netCalls)
            /\ display' = Shown("cancelled", NoExc)
            /\ UNCHANGED <<choice, collected>>
       ELSE ToMenu(Shown("cancelled", NoExc))
    /\ entered' = NoneValue
    /\ UNCHANGED <<bot, orders, exitedBy, placed>>

\* input() raises EOFError: get_user_input does not catch it, the loop's
\* `except Exception` prints and logs it, and the loop goes on.
EndOfInput ==
    /\ pc \in {"menu", "prompt"}
    /\ ToMenu(Shown("unexpected error", EOFError))
    /\ UNCHANGED <<bot, orders, exitedBy, placed, entered>>

\* A loop whose handlers catch exchange-reported errors only: any other
\* exception of the wrapper ends the process.
ShellResumes_apionly ==
    /\ pc = "returned"
    /\ IF exc = NoExc
       THEN /\ ToMenu(IF FormatFails(op, result)
                       THEN Shown("error", TypeError)
                       ELSE Shown("result", NoExc))
            /\ UNCHANGED exitedBy
       ELSE IF exc.type = "BinanceAPIException"
       THEN /\ ToMenu(Shown("error", exc))
            /\ UNCHANGED exitedBy
       ELSE /\ pc' = "exited"
            /\ exitedBy' = exc.type
            /\ display' = Shown("traceback", exc)
            /\ UNCHANGED <<choice, collected>>
            /\ Forget
    /\ UNCHANGED <<bot, orders, placed, entered>>

\* The wrapper method has returned or raised: main() prints the result or
\* the error; a KeyboardInterrupt is not an Exception and ends the loop.
ShellResumes ==
    /\ pc = "returned"
    /\ IF exc = NoExc
       THEN /\ ToMenu(IF FormatFails(op, result)
                       THEN Shown("error", TypeError)
                       ELSE Shown("result", NoExc))
            /\ UNCHANGED exitedBy
       ELSE IF IsException(exc)
       THEN /\ ToMenu(Shown("error", exc))
            /\ UNCHANGED exitedBy
       ELSE /\ pc' = "exited"
            /\ exitedBy' = "KeyboardInterrupt"
            /\ display' = Shown("exiting", NoExc)
            /\ UNCHANGED <<choice, collected>>
            /\ Forget
    /\ UNCHANGED <<bot, orders, placed, entered>>

Next ==
    \/ LoadCredentials
    \/ CredentialInput
    \/ CredentialInterrupt
    \/ ConnectSucceeds
    \/ ConnectFails
    \/ MenuChoice
    \/ MenuInterrupt
    \/ ParameterInput
    \/ ParameterInterrupt
    \/ EndOfInput
    \/ ShellResumes
    \/ WrapperStep

Spec == Init /\ [][Next]_vars

---------------------------------------------------------------------------
(* InputSpec: one call of get_user_input(prompt, input_type,               *)
(* validation_func).  `args` holds the call's arguments, `collected` the   *)
(* entries typed so far, `entered` the value returned.                     *)
(*   input           the loop waits in input(prompt);                      *)
(*   input returned  the call has returned;                                *)
(*   input raised    an exception has left the call.                       *)

\* The calls: a type and a validation function that accepts its values.  The
\* type "bool" stands for any type other than str, int and float.
InputCalls ==
    { [input_type |-> "str", validation_func |-> "none"],
      [input_type |-> "str", validation_func |-> "side"],
      [input_type |-> "int", validation_func |-> "none"],
      [input_type |-> "int", validation_func |-> "positive"],
      [input_type |-> "float", validation_func |-> "none"],
      [input_type |-> "float", validation_func |-> "positive"],
      [input_type |-> "bool", validation_func |-> "none"] }

InputTexts ==
    { <<"b","u","y">>, <<" ","S","E","L","L"," ">>, <<"x">>, <<>>, <<"0">>,
      <<" ","7">>, <<"-","1">>, <<"0",".","5">>, <<"-","0",".","0">> }

InputInit ==
    /\ pc = "input"
    /\ placed = NoValue
    /\ op = "get_user_input"
    /\ args \in InputCalls
    /\ request = NoRequest
    /\ netCalls = 0
    /\ response = NoValue
    /\ exc = NoExc
    /\ raisedBy = NoExc
    /\ result = NoValue
    /\ log = <<>>
    /\ bot = NoValue
    /\ orders = <<>>
    /\ ShellUnused

\* The user types an entry: the loop returns its value, or prints why it
\* rejects the entry and prompts again.
InputTyped ==
    /\ pc = "input"
    /\ Len(collected) < MaxRounds
    /\ \E text \in InputTexts :
          LET r == get_user_input(text, args.input_type, args.validation_func)
          IN  /\ collected' = Append(collected, text)
              /\ IF r.kind = "again"
                 THEN /\ display' = Shown("invalid input", NoExc)
                      /\ UNCHANGED <<pc, entered>>
                 ELSE /\ pc' = "input returned"
                      /\ entered' = PyValue(r.type, r.val)
                      /\ UNCHANGED display
    /\ UNCHANGED <<bot, orders, placed, choice, exitedBy>>
    /\ UNCHANGED wrapperVars

\* Ctrl+C in input(): the except clause prints "Operation cancelled by
\* user." and returns None.
InputInterrupt ==
    /\ pc = "input"
    /\ pc' = "input returned"
    /\ raisedBy' = KeyboardInterrupt
    /\ entered' = NoneValue
    /\ display' = Shown("cancelled", NoExc)
    /\ UNCHANGED <<op, args, request, netCalls, response, exc, result, log>>
    /\ UNCHANGED <<bot, orders, placed, choice, collected, exitedBy>>

\* End of input: input() raises EOFError, which no except clause of
\* get_user_input catches.
InputEnds ==
    /\ pc = "input"
    /\ pc' = "input raised"
    /\ raisedBy' = EOFError
    /\ exc' = EOFError
    /\ UNCHANGED <<op, args, request, netCalls, response, result, log>>
    /\ UNCHANGED <<bot, orders, placed, shellVars>>

InputNext ==
    \/ InputTyped
    \/ InputInterrupt
    \/ InputEnds

InputSpec == InputInit /\ [][InputNext]_vars

---------------------------------------------------------------------------
(* Properties of the wrapper, checked under WrapperSpec.                   *)

Succeeded(m) == pc = "returned" /\ op = m /\ exc = NoExc

NumericFields == {"quantity", "price", "stop_price", "limit_price"}

\* The numeric arguments of a placement that are not positive.
NonPositive(a) == { f \in DOMAIN a \cap NumericFields : a[f] <= 0 }

\* The arguments a validation message names.
Named(e) ==
    CASE e.msg = "Quantity must be positive" -> {"quantity"}
      [] e.msg = "Price must be positive" -> {"price"}
      [] e.msg = "Stop price and limit price must be positive" -> {"stop_price", "limit_price"}
      [] OTHER -> {}

\* The invocation has failed validation and no exchange call was made for it.
FailedBeforeNetwork ==
    /\ pc \in {"except", "returned"}
    /\ exc.type = "ValueError"
    /\ request = NoRequest
    /\ netCalls = 0
    /\ result = NoValue

\* C1: a placement whose upper-cased side is neither BUY nor SELL fails with
\* a ValueError and no exchange call is made, whatever its other arguments.
C1_BadSideFailsBeforeNetwork ==
    (op \in Placements /\ ToUpper(args.side) \notin {BUY, SELL})
        => (FailedBeforeNetwork /\ exc.msg = "Side must be 'BUY' or 'SELL'")

C1_Witness ==
    /\ pc = "returned"
    /\ op = "place_stop_limit_order"
    /\ args.side = <<"H","O","L","D">>
    /\ args.quantity = 1 /\ args.stop_price = 1 /\ args.limit_price = 1
    /\ exc.type = "ValueError"
    /\ netCalls = 0

\* The case of C2: a placement with a valid side and exactly one numeric
\* argument that is not positive.
OneNonPositive ==
    /\ op \in Placements
    /\ ToUpper(args.side) \in {BUY, SELL}
    /\ Cardinality(NonPositive(args)) = 1

\* C2 as claimed: with a valid side and exactly one non-positive numeric
\* argument, the placement fails before any exchange call and the error names
\* exactly that argument.
C2_ErrorNamesExactField ==
    OneNonPositive => (FailedBeforeNetwork /\ Named(exc) = NonPositive(args))

\* C2 as amended: the placement fails before any exchange call; the error
\* names exactly the quantity or the price, while place_stop_limit_order
\* reports a non-positive stop price or limit price with one message that
\* names both.
C2_ErrorNamesFieldOrStopLimitPair ==
    OneNonPositive =>
        /\ FailedBeforeNetwork
        /\ NonPositive(args) \subseteq Named(exc)
        /\ NonPositive(args) \subseteq {"quantity", "price"} => Named(exc) = NonPositive(args)
        /\ NonPositive(args) \subseteq {"stop_price", "limit_price"}
               => Named(exc) = {"stop_price", "limit_price"}

C2_Witness ==
    /\ pc = "returned"
    /\ op = "place_stop_limit_order"
    /\ ToUpper(args.side) = SELL
    /\ NonPositive(args) = {"limit_price"}
    /\ exc.msg = "Stop price and limit price must be positive"
    /\ netCalls = 0

\* positionAmt, written as a decimal, is not zero: it has a digit other than 0.
HasNonZeroDigit(text) == \E i \in 1..Len(text) : IsDigit(text[i]) /\ text[i] # "0"

\* The positions of the response whose positionAmt is non-zero.
NonZeroIndexes(ps) ==
    { i \in 1..Len(ps) : "positionAmt" \in DOMAIN ps[i] /\ HasNonZeroDigit(ps[i].positionAmt) }

\* The k-th of them, in the order of the response.
KthIndex(ps, k) ==
    CHOOSE i \in NonZeroIndexes(ps) : Cardinality({ j \in NonZeroIndexes(ps) : j < i }) = k - 1

\* An entry of the result shows the values of the response's position.
SameValues(entry, position) ==
    /\ entry.symbol = Get(position, "symbol", None)
    /\ entry.size = position.positionAmt
    /\ entry.entry_price = Get(position, "entryPrice", None)
    /\ entry.unrealized_pnl = Get(position, "unrealizedPnL", None)
    /\ entry.percentage = Get(position, "percentage", None)

\* C3: the positions get_account_info returns are exactly the positions of
\* the response whose positionAmt is non-zero, in the response's order, each
\* with the exchange's values.
C3_PositionsAreTheNonZeroOnes ==
    Succeeded("get_account_info") =>
        LET ps == Get(response, "positions", <<>>)
        IN  /\ Len(result.positions) = Cardinality(NonZeroIndexes(ps))
            /\ \A k \in 1..Len(result.positions) :
                  SameValues(result.positions[k], ps[KthIndex(ps, k)])

C3_Witness ==
    /\ Succeeded("get_account_info")
    /\ response.positions = << Position(ETH, <<"0",".","0","0","0">>), Position(ETH, <<"-","2">>) >>
    /\ Len(result.positions) = 1
    /\ result.positions[1].size = <<"-","2">>

\* C6: when the client call of a wrapper method fails, with an error of the
\* exchange or of the transport, the caller gets that same error and no
\* value, and an error line for it is in the log by then.
C6_ClientFailureLoggedAndPropagated ==
    (pc = "returned" /\ raisedBy.type \in {"BinanceAPIException", "ConnectionError"})
        => /\ exc = raisedBy
           /\ result = NoValue
           /\ \E i \in 1..Len(log) : log[i].level = "ERROR" /\ log[i].e = raisedBy

C6_Witness ==
    /\ pc = "returned"
    /\ op = "get_account_info"
    /\ netCalls = 1
    /\ exc = ConnectionError
    /\ log = << Error("Unexpected error", ConnectionError) >>

\* C7: an invocation of a wrapper method issues at most one exchange call:
\* none when its validation fails, exactly one otherwise, also when the call
\* fails.
C7_OneCallPerInvocation ==
    /\ netCalls <= 1
    /\ op \in Methods =>
          \/ netCalls = 1 /\ request # NoRequest
          \/ netCalls = 0 /\ request = NoRequest /\ raisedBy.type = "ValueError"

C7_Witness ==
    /\ pc = "returned"
    /\ op = "place_market_order"
    /\ exc = ConnectionError
    /\ netCalls = 1

\* The open orders that a call with the given filter is to return: all of
\* them without a filter, else those of the filter's symbol.
Wanted(filter) ==
    { i \in 1..Len(orders) :
        /\ orders[i].status \notin {"FILLED", "CANCELED"}
        /\ Truthy(filter) => orders[i].symbol = ToUpper(filter) }

\* C8: get_open_orders without a symbol returns the open orders of all
\* symbols; with a symbol, the open orders of that symbol only; no filled or
\* cancelled order is in either result.
C8_OpenOrdersByFilter ==
    Succeeded("get_open_orders") =>
        /\ { result[k].orderId : k \in 1..Len(result) } = Wanted(args.symbol)
        /\ Len(result) = Cardinality(Wanted(args.symbol))
        /\ \A k \in 1..Len(result) : result[k] = orders[result[k].orderId]

C8_Witness ==
    /\ Succeeded("get_open_orders")
    /\ args.symbol = btc
    /\ Len(orders) = 2
    /\ orders[1].symbol = ETH /\ orders[1].status = "NEW"
    /\ orders[2].symbol = BTC /\ orders[2].status = "NEW"
    /\ Len(result) = 1
    /\ result[1].orderId = 2

\* The round trip of C9: the status query for a market order just placed, with
\* the symbol it was placed for, finds the order and shows its identifier.
RoundTrip ==
    (op = "get_order_status" /\ placed # NoValue) =>
        /\ args.order_id = placed.order.orderId
        /\ exc # UnknownOrder
        /\ Succeeded("get_order_status") => result.orderId = placed.order.orderId

\* C9 as claimed: the Order a successful place_market_order returns has the
\* symbol, side and quantity of the input, and the round trip holds.
C9_OrderEchoesInput ==
    /\ Succeeded("place_market_order") =>
          /\ result.symbol = args.symbol
          /\ result.side = args.side
          /\ result.origQty = args.quantity
    /\ RoundTrip

\* C9 as amended: the Order has the upper-cased symbol and side of the input
\* and its quantity, and the round trip holds.
C9_OrderEchoesUpperCasedInput ==
    /\ Succeeded("place_market_order") =>
          /\ result.symbol = ToUpper(args.symbol)
          /\ result.side = ToUpper(args.side)
          /\ result.origQty = args.quantity
          /\ result.orderId \in 1..Len(orders)
    /\ RoundTrip

C9_Witness ==
    /\ Succeeded("get_order_status")
    /\ placed # NoValue
    /\ placed.symbol = btc
    /\ placed.side = <<"b","u","y">>
    /\ placed.order.symbol = BTC
    /\ placed.order.side = BUY
    /\ result.orderId = placed.order.orderId
    /\ result.symbol = BTC

---------------------------------------------------------------------------
(* Properties of the menu loop, checked under Spec.                        *)

\* C4: an exception of a wrapper method (a validation error, an error of the
\* exchange, a transport or other unexpected error) does not end the loop:
\* main() prints it and is back at the menu prompt.
C4_FailureReturnsToMenu ==
    [][(pc = "returned" /\ exc # NoExc /\ IsException(exc))
          => (pc' = "menu" /\ display' = Shown("error", exc) /\ exitedBy' = "none")]_vars

C4_Witness ==
    /\ pc = "menu"
    /\ exitedBy = "none"
    /\ display = [kind |-> "error", e |-> UnknownOrder, action |-> 7]

\* C5, for the parameter prompts of actions 2 to 8: Ctrl+C at a parameter
\* prompt aborts the operation and returns to the menu: no wrapper method
\* runs, no exchange call is made, and the loop goes on.
C5_ParameterInterruptAborts ==
    [][ParameterInterrupt
          => (pc' = "menu" /\ op' = "none" /\ netCalls' = 0 /\ exitedBy' = "none")]_vars

\* The same for the choice prompt: Ctrl+C there returns to the menu and the
\* loop goes on.
MenuInterruptKeepsLoop ==
    [][MenuInterrupt => (pc' = "menu" /\ exitedBy' = "none")]_vars

\* C10: a selection outside 1..9 runs no wrapper method and leads back to the
\* choice prompt; an action starts only for a selection in 1..8; and the loop
\* ends by its exit statement only for selection 9 (otherwise by Ctrl+C).
C10_InvalidSelectionReprompts ==
    [][pc = "menu" =>
          /\ display'.kind = "invalid choice"
                 => (pc' = "menu" /\ choice' \notin 1..9 /\ op' = "none" /\ netCalls' = 0)
          /\ pc' \notin {"menu", "exited"} => choice' \in 1..8
          /\ op' # "none" => choice' \in 1..8 /\ op' = Method(choice')
          /\ pc' = "exited" =>
                 \/ exitedBy' = "exit" /\ choice' = 9
                 \/ exitedBy' = "interrupt" /\ op' = "none"]_vars

C10_Witness ==
    /\ pc = "menu"
    /\ display = [kind |-> "invalid choice", e |-> NoExc, action |-> 10]
    /\ choice = 10
    /\ op = "none"

---------------------------------------------------------------------------
(* Properties of get_user_input, checked under InputSpec.                  *)

\* The value int() / float() / str gives for an entry the type accepts.
Parsed(text, input_type) ==
    CASE input_type = "str" -> [ok |-> TRUE, val |-> Strip(text)]
      [] input_type = "int" -> ParseInt(Strip(text))
      [] input_type = "float" -> ParseFloat(Strip(text))
      [] OTHER -> [ok |-> FALSE, val |-> 0]

\* The entry parses to the requested type and satisfies the predicate.
Acceptable(text, call) ==
    /\ Parsed(text, call.input_type).ok
    /\ \/ call.validation_func = "none"
       \/ call.validation_func = "side"
              /\ ToUpper(Parsed(text, call.input_type).val) \in {BUY, SELL}
       \/ call.validation_func = "positive"
              /\ Parsed(text, call.input_type).val > 0

\* C11: get_user_input keeps prompting until an entry parses to the
\* requested type and satisfies the predicate.  While it prompts, every entry
\* so far was unacceptable; a value other than None that it returns has the
\* requested type, is the value of the last entry, which is acceptable, and
\* follows unacceptable entries only; None is returned only on an interrupt.
C11_InputLoopUntilValid ==
    /\ pc = "input" => \A i \in 1..Len(collected) : ~Acceptable(collected[i], args)
    /\ (pc = "input returned" /\ entered # NoneValue) =>
          /\ collected # <<>>
          /\ entered.type = args.input_type
          /\ Acceptable(collected[Len(collected)], args)
          /\ entered.val = Parsed(collected[Len(collected)], args.input_type).val
          /\ \A i \in 1..(Len(collected) - 1) : ~Acceptable(collected[i], args)
    /\ (pc = "input returned" /\ entered = NoneValue) => raisedBy = KeyboardInterrupt
    /\ pc = "input raised" => exc = EOFError

C11_Witness ==
    /\ pc = "input returned"
    /\ args = [input_type |-> "float", validation_func |-> "positive"]
    /\ collected = << <<"x">>, <<"-","1">>, <<"0",".","5">> >>
    /\ entered = PyValue("float", 500)

---------------------------------------------------------------------------
(* Properties of main(), checked under Spec (continued).                   *)

\* C12: in the order-status and cancel-order actions an entered order id of
\* zero is taken for missing input: the step on which get_user_input returns
\* 0 leads back to the menu with nothing printed, no wrapper method invoked
\* and no exchange call; so the shell never calls get_order_status or
\* cancel_order with order id 0.
C12_ZeroOrderIdSkipsAction ==
    /\ [](op \in {"get_order_status", "cancel_order"} => args.order_id # 0)
    /\ [][(pc = "prompt" /\ choice \in {6, 7} /\ entered'.type = "int" /\ entered'.val = 0)
            => /\ pc' = "menu"
               /\ op' = "none"
               /\ request' = NoRequest
               /\ netCalls' = 0
               /\ display' = [kind |-> "none", e |-> NoExc, action |-> choice]
               /\ exitedBy' = "none"]_vars

C12_Witness ==
    /\ pc = "menu"
    /\ entered = PyValue("int", 0)
    /\ display = [kind |-> "none", e |-> NoExc, action |-> 7]
    /\ op = "none"
    /\ netCalls = 0

\* C13: whenever main() has invoked a placement method, its arguments
\* satisfy the method's preconditions (non-empty symbol, side BUY or SELL in
\* any case, quantity and every price positive); so the method's validation
\* raises nothing and the invocation has issued its exchange call.
C13_ShellPlacementsPassValidation ==
    op \in Placements =>
        /\ Truthy(args.symbol)
        /\ ToUpper(args.side) \in {BUY, SELL}
        /\ \A f \in DOMAIN args \cap NumericFields : args[f] > 0
        /\ Validation(op, args) = NoExc
        /\ raisedBy.type # "ValueError"
        /\ request # NoRequest
        /\ request.endpoint = "futures_create_order"
        /\ netCalls = 1

C13_Witness ==
    /\ pc = "requested"
    /\ op = "place_stop_limit_order"
    /\ args.side = <<"b","u","y">>
    /\ args.symbol = btc
    /\ request.endpoint = "futures_create_order"
    /\ bot # NoValue

\* C14: main() constructs the bot in test-network mode with a non-empty key
\* and secret; once constructed, the bot's credentials, flag and client never
\* change; and a wrapper method runs, or an exchange call is made, only with
\* such a bot: never in live mode, never before the client exists.
C14_ShellClientIsTestnetAndFixed ==
    /\ [](bot # NoValue =>
            /\ bot.testnet
            /\ bot.client.testnet
            /\ bot.client.API_URL = "https://testnet.binancefuture.com"
            /\ Truthy(bot.api_key) /\ Truthy(bot.api_secret)
            /\ bot.client.api_key = bot.api_key
            /\ bot.client.api_secret = bot.api_secret)
    /\ []((op \in Methods \/ request # NoRequest) => bot # NoValue)
    /\ [][bot # NoValue => bot' = bot]_vars

C14_Witness ==
    /\ pc = "requested"
    /\ request.endpoint = "futures_create_order"
    /\ bot = BinanceFuturesBot(KEY, SECRET, TRUE)
    /\ bot.client.testnet

============================================================================
